---------------------------- MODULE Spec2Model ----------------------------
(***************************************************************************)
(* Pairs-trading bot (trade/pairs.py, trade/strategies.py): the Kalman     *)
(* hedge-ratio estimator (trade/models.py), the position state machine,    *)
(* the JSON snapshot store (trade/defaults.py) and the trade executor's    *)
(* outcomes (trade/traders.py).                                            *)
(*                                                                         *)
(* Numbers are fixed-point integers in units of 1/PriceScale: mid prices   *)
(* are rounded to 4 decimals by the program, so a price is an exact        *)
(* integer number of units; products and quotients are rounded back to     *)
(* the unit the way a float operation rounds its result.                   *)
(***************************************************************************)
EXTENDS Integers, Sequences, FiniteSets, TLC

VARIABLES
    cfg,        \* constructor arguments of Pairs: variant, bake_count, sleep_time, save_time
    strategy,   \* the Pairs object's fields: counter, position, volume_a, volume_b
    model,      \* the KalmanOLS object's fields
    disk,       \* the two snapshot files: disk.strategy, disk.model
    pc,         \* "ready": object built, between ticks; "failed": a tick raised; "down": construction raised
    lastOp,     \* "init" | "construct" | "tick": the operation that produced this state
    outcome,    \* how the last operation ended, as its caller sees it
    events,     \* the steps the last operation performed, in order
    sig,        \* (e, q, t) returned by the estimator in the last tick
    pre,        \* strategy, model and disk as they were when the last operation began
    execLog,    \* every trade-executor call made so far
    ticks,      \* ticks begun on the current object
    loaded,     \* the counter the current object was constructed with
    steps,      \* ticks begun since the first construction (bounds the model)
    restarts,   \* constructions after the first (bounds the model)
    obs         \* updates since the default initialisation that the estimator object
                \* (obs.mem) and the estimator snapshot (obs.disk) embody

vars == <<cfg, strategy, model, disk, pc, lastOp, outcome, events, sig, pre,
          execLog, ticks, loaded, steps, restarts, obs>>

-----------------------------------------------------------------------------
(* Bounds of the model *)

MaxTicks == 3
MaxRestarts == 1
\* mid-price levels offered by the price feed, in whole currency units
PriceLevels == {1, 2}

-----------------------------------------------------------------------------
(* Fixed-point arithmetic *)

\* round(..., 4) in BaseTrader.mid_price: prices have 4 decimals
PriceScale == 10000

Abs(x) == IF x < 0 THEN -x ELSE x

\* quotient rounded to the nearest unit (ties away from zero), b # 0
RDiv(a, b) ==
    LET n == IF b < 0 THEN -a ELSE a
        d == Abs(b)
    IN  IF n >= 0 THEN (2 * n + d) \div (2 * d)
                  ELSE -((2 * (-n) + d) \div (2 * d))

FxMul(a, b) == RDiv(a * b, PriceScale)
FxDiv(a, b) == RDiv(a * PriceScale, b)

-----------------------------------------------------------------------------
(* 2x2 matrices <<m00, m01, m10, m11>> and 2x1 vectors <<v0, v1>> *)

Zero2x2 == <<0, 0, 0, 0>>
MatAdd(A, B) == <<A[1] + B[1], A[2] + B[2], A[3] + B[3], A[4] + B[4]>>
MatSub(A, B) == <<A[1] - B[1], A[2] - B[2], A[3] - B[3], A[4] - B[4]>>
MatMul(A, B) ==
    << FxMul(A[1], B[1]) + FxMul(A[2], B[3]), FxMul(A[1], B[2]) + FxMul(A[2], B[4]),
       FxMul(A[3], B[1]) + FxMul(A[4], B[3]), FxMul(A[3], B[2]) + FxMul(A[4], B[4]) >>


-----------------------------------------------------------------------------
(* KalmanOLS (trade/models.py) *)

\* self.delta = 1e-4, in units of 1/PriceScale
Delta == 1
\* self.nu = 1e-3, in units of 1/PriceScale
Nu == 10

\* self.w = self.delta / (1 - self.delta) * np.eye(2)
DefaultW ==
    LET c == FxDiv(Delta, PriceScale - Delta) IN <<c, 0, 0, c>>

\* np.random.rand(2, 2) / 100: each entry is drawn from [0, 0.01), so the matrix
\* is in general not symmetric; three of the draws. From <<0, 99, 99, 0>> the update
\* at price 1 leaves a C with which the next forecast variance at price 2 is negative.
RInits == { <<0, 0, 0, 0>>, <<50, 20, 80, 30>>, <<0, 99, 99, 0>> }

\* the fields set by the FileNotFoundError branch of KalmanOLS.__init__
DefaultModel(r) ==
    [ delta |-> Delta, nu |-> Nu, w |-> DefaultW, theta |-> <<0, 0>>,
      R |-> r, C |-> Zero2x2, hasC |-> FALSE, finite |-> TRUE ]

\* KalmanOLS._serialize: ndarray.tolist() gives the rows as nested lists; None stays null
Serialize2x2(m) == << <<m[1], m[2]>>, <<m[3], m[4]>> >>
Serialize2x1(v) == << <<v[1]>>, <<v[2]>> >>
\* null in the JSON text
Null == << >>

\* KalmanOLS._deserialize: np.asarray of the nested lists; null stays None
Deserialize2x2(x) == << x[1][1], x[1][2], x[2][1], x[2][2] >>
Deserialize2x1(x) == << x[1][1], x[2][1] >>

\* KalmanOLS.get_state: the mapping json.dump writes (NaN and Infinity are written as such)
ModelGetState(m) ==
    [ delta |-> m.delta, nu |-> m.nu, w |-> Serialize2x2(m.w),
      theta |-> Serialize2x1(m.theta), R |-> Serialize2x2(m.R),
      C |-> IF m.hasC THEN Serialize2x2(m.C) ELSE Null, finite |-> m.finite ]

\* (faulty variant, used against C11) a null C is restored as a matrix of zeros
ModelFromStateNullAsZeros(st) ==
    [ delta |-> st.delta, nu |-> st.nu, w |-> Deserialize2x2(st.w),
      theta |-> Deserialize2x1(st.theta), R |-> Deserialize2x2(st.R),
      C |-> IF st.C = Null THEN Zero2x2 ELSE Deserialize2x2(st.C),
      hasC |-> TRUE, finite |-> st.finite ]

\* the try branch of KalmanOLS.__init__: the fields taken from a loaded snapshot
ModelFromState(st) ==
    [ delta |-> st.delta, nu |-> st.nu, w |-> Deserialize2x2(st.w),
      theta |-> Deserialize2x1(st.theta), R |-> Deserialize2x2(st.R),
      C |-> IF st.C = Null THEN Zero2x2 ELSE Deserialize2x2(st.C),
      hasC |-> st.C # Null, finite |-> st.finite ]

\* (faulty variant, used against C14) the prior is never rebuilt from C
PriorRNeverRebuilt(m) == m.R

\* self.R = self.R if self.C is None else self.C + self.w
PriorR(m) == IF m.hasC THEN MatAdd(m.C, m.w) ELSE m.R

\* yp = F.dot(theta); et = y2 - yp, with F = [[y1, 1]]
Innovation(m, y1, y2) == y2 - (FxMul(y1, m.theta[1]) + m.theta[2])

\* Qt = F.dot(R).dot(F.T) + nu
ForecastVar(r, nu, y1) ==
    LET fr0 == FxMul(y1, r[1]) + r[3]
        fr1 == FxMul(y1, r[2]) + r[4]
    IN  FxMul(fr0, y1) + fr1 + nu

\* At = R.dot(F.T) / Qt, for Qt # 0
Gain(r, y1, qt) ==
    << FxDiv(FxMul(r[1], y1) + r[2], qt), FxDiv(FxMul(r[3], y1) + r[4], qt) >>

\* C = R - At.dot(F).dot(R)
Posterior(r, at, y1) ==
    LET af == << FxMul(at[1], y1), at[1], FxMul(at[2], y1), at[2] >>
    IN  MatSub(r, MatMul(af, r))

\* KalmanOLS.__call__(y1, y2): the updated object and the returned (et, Qt, theta[0, 0]).
\* Once theta holds inf or nan every later result is inf or nan (finite = FALSE);
\* Qt = 0 makes the division produce inf or nan without raising.
KalmanCall(m, y1, y2) ==
    IF ~m.finite
    THEN [ model |-> [m EXCEPT !.hasC = TRUE],
           e |-> 0, q |-> 0, t |-> 0, finite |-> FALSE, tfinite |-> FALSE ]
    ELSE LET r  == PriorR(m)
             et == Innovation(m, y1, y2)
             qt == ForecastVar(r, m.nu, y1)
         IN  IF qt = 0
             THEN [ model |-> [m EXCEPT !.R = r, !.hasC = TRUE, !.finite = FALSE],
                    e |-> et, q |-> qt, t |-> 0, finite |-> TRUE, tfinite |-> FALSE ]
             ELSE LET at == Gain(r, y1, qt)
                      th == << m.theta[1] + FxMul(at[1], et),
                               m.theta[2] + FxMul(at[2], et) >>
                  IN  [ model |-> [m EXCEPT !.R = r, !.theta = th,
                                            !.C = Posterior(r, at, y1), !.hasC = TRUE],
                        e |-> et, q |-> qt, t |-> th[1],
                        finite |-> TRUE, tfinite |-> TRUE ]

-----------------------------------------------------------------------------
(* Stateful (trade/defaults.py): one JSON file per component *)

NotFound == [kind |-> "NotFound"]
\* a file that open(..., 'w+') truncated and json.dump did not finish writing
Corrupt == [kind |-> "Corrupt"]
Snapshot(st) == [kind |-> "Snapshot", state |-> st]

\* (faulty variant, used against C8) a save that writes nothing
SaveFileSkipped(file, st, fault) == file

\* Stateful.save_state: open(path, 'w+') then json.dump(self.get_state(), f).
\* fault "open": open raises, the file is as before; fault "write": the file was
\* truncated and the dump raised.
SaveFile(file, st, fault) ==
    CASE fault = "open"  -> file
      [] fault = "write" -> Corrupt
      [] OTHER           -> Snapshot(st)

-----------------------------------------------------------------------------
(* Pairs (trade/pairs.py and trade/strategies.py) *)

NOT_INVESTED == "NOT_INVESTED"
LONG == "LONG"
SHORT == "SHORT"
Position == {NOT_INVESTED, LONG, SHORT}

\* --bake-count values tried (the default is 2)
BakeCounts == {0, 1, 2}
\* (sleep_time, save_time) tried for pairs.py: a save cadence of 2 ticks, and the defaults
Cadences == { <<30, 60>>, <<30, 46800>> }
\* --volume, default 1.0
Volume == PriceScale

\* the constructor arguments; strategies.py has no sleep_time or save_time
Configs ==
    { [variant |-> "pairs", bake_count |-> b, sleep_time |-> c[1], save_time |-> c[2],
       volume |-> Volume] : b \in BakeCounts, c \in Cadences }
    \cup
    { [variant |-> "strategies", bake_count |-> b, sleep_time |-> 0, save_time |-> 0,
       volume |-> Volume] : b \in BakeCounts }

\* (faulty variant, used against C5) both files use the multiplier of pairs.py
KAlwaysOne(variant) == 1

\* the threshold multiplier: e < - np.sqrt(q) in pairs.py, e < - 2 * np.sqrt(q) in strategies.py
K(variant) == IF variant = "pairs" THEN 1 ELSE 2

\* the FileNotFoundError branch of Pairs.__init__; pairs.py has no volume_a attribute
DefaultStrategy(c) ==
    [ counter |-> 0, position |-> NOT_INVESTED,
      volume_a |-> IF c.variant = "pairs" THEN 0 ELSE c.volume,
      volume_b |-> c.volume ]

\* Pairs.get_state
StrategyGetState(c, s) ==
    IF c.variant = "pairs"
    THEN [ counter |-> s.counter, invested |-> s.position ]
    ELSE [ counter |-> s.counter, invested |-> s.position,
           volume_a |-> s.volume_a, volume_b |-> s.volume_b ]

\* the try branch of Pairs.__init__
StrategyFromState(c, st) ==
    IF c.variant = "pairs"
    THEN [ counter |-> st.counter, position |-> st.invested,
           volume_a |-> 0, volume_b |-> c.volume ]
    ELSE [ counter |-> st.counter, position |-> st.invested,
           volume_a |-> st.volume_a, volume_b |-> st.volume_b ]

\* (faulty variant, used against C18) the best ask is taken for the price
MidPriceAsk(ticker) == ticker.a

\* BaseTrader.mid_price: round(0.5 * (ask + bid), 4), a tie going to the even unit
MidPrice(ticker) ==
    LET sum == ticker.a + ticker.b
        h   == sum \div 2
    IN  IF sum % 2 = 0 THEN h ELSE IF h % 2 = 0 THEN h ELSE h + 1

\* the tickers the price feed may return: best bid at a price level, best ask one unit above
Tickers == { [a |-> p * PriceScale + 1, b |-> p * PriceScale] : p \in PriceLevels }

\* (faulty variant, used against C9) the counter is incremented twice
NextCounterTwice(counter) == counter + 2

\* self.counter += 1
NextCounter(counter) == counter + 1

\* (faulty variant, used against C4) trading starts one tick early
TradingOneEarly(counter, bake_count) == counter >= bake_count

\* if self.counter > self.bake_count
Trading(counter, bake_count) == counter > bake_count

\* k * np.sqrt(q) squared, in units squared; defined for q >= 0
Bound2(q, k) == k * k * q * PriceScale

\* e < - k * np.sqrt(q); a comparison with nan (q < 0, or a non-finite e or q) is False
BelowLower(s, k) == s.finite /\ s.q >= 0 /\ s.e < 0 /\ s.e * s.e > Bound2(s.q, k)
\* e > k * np.sqrt(q)
AboveUpper(s, k) == s.finite /\ s.q >= 0 /\ s.e > 0 /\ s.e * s.e > Bound2(s.q, k)
\* e > - k * np.sqrt(q)
AboveLower(s, k) == s.finite /\ s.q >= 0 /\ (s.e >= 0 \/ s.e * s.e < Bound2(s.q, k))
\* e < k * np.sqrt(q)
BelowUpper(s, k) == s.finite /\ s.q >= 0 /\ (s.e <= 0 \/ s.e * s.e < Bound2(s.q, k))

\* (faulty variant, used against C6) the exits test the opposite bound
DecisionExitAtFarBound(position, s, k) ==
    IF position = NOT_INVESTED
    THEN IF BelowLower(s, k) THEN "go_long"
         ELSE IF AboveUpper(s, k) THEN "go_short"
         ELSE "none"
    ELSE IF position = LONG
    THEN IF AboveUpper(s, k) THEN "close_long" ELSE "none"
    ELSE IF position = SHORT
    THEN IF BelowLower(s, k) THEN "close_short" ELSE "none"
    ELSE "none"

\* the if/elif chain on self.position: the executor operation the tick requests
Decision(position, s, k) ==
    IF position = NOT_INVESTED
    THEN IF BelowLower(s, k) THEN "go_long"
         ELSE IF AboveUpper(s, k) THEN "go_short"
         ELSE "none"
    ELSE IF position = LONG
    THEN IF AboveLower(s, k) THEN "close_long" ELSE "none"
    ELSE IF position = SHORT
    THEN IF BelowUpper(s, k) THEN "close_short" ELSE "none"
    ELSE "none"

\* (faulty variant, used against C7) independent if statements, the
\* NOT_INVESTED test last: a tick that closes goes on to test the entry conditions
RequestsSequentialIfs(position, s, k) ==
    LET closes == IF position = LONG /\ AboveLower(s, k) THEN <<"close_long">>
                  ELSE IF position = SHORT /\ BelowUpper(s, k) THEN <<"close_short">>
                  ELSE << >>
        flat   == position = NOT_INVESTED \/ closes # << >>
        opens  == IF flat /\ BelowLower(s, k) THEN <<"go_long">>
                  ELSE IF flat /\ AboveUpper(s, k) THEN <<"go_short">>
                  ELSE << >>
    IN  closes \o opens

\* the executor operations one tick requests, in order: the branches of the
\* if/elif chain exclude one another, so at most one
Requests(position, s, k) ==
    LET op == Decision(position, s, k)
    IN  IF op = "none" THEN << >> ELSE <<op>>

\* (faulty variant, used against C1) closing a long position records the reverse position
PositionAfterReversing(position, op) ==
    CASE op = "go_long"     -> LONG
      [] op = "go_short"    -> SHORT
      [] op = "close_long"  -> SHORT
      [] op = "close_short" -> NOT_INVESTED
      [] OTHER              -> position

\* the assignment to self.position that follows each executor call
PositionAfter(position, op) ==
    CASE op = "go_long"     -> LONG
      [] op = "go_short"    -> SHORT
      [] op = "close_long"  -> NOT_INVESTED
      [] op = "close_short" -> NOT_INVESTED
      [] OTHER              -> position

RECURSIVE ApplyOps(_, _)
\* self.position after the assignments that follow the calls ops
ApplyOps(position, ops) ==
    IF ops = << >> THEN position
    ELSE ApplyOps(PositionAfter(position, Head(ops)), Tail(ops))

\* volume_a = round(self.volume_b * t, 8)
EntryVolume(volume_b, t) == FxMul(volume_b, t)

\* (faulty variant, used against C15) a change of position does not trigger the save
ModelSaveDueCadenceOnly(c, counter, old_position, position) ==
    /\ c.variant = "pairs"
    /\ \/ ~Trading(counter, c.bake_count)
       \/ (counter * c.sleep_time) % c.save_time = 0

\* pairs.py: old_position != self.position or self.counter % (self.save_time / self.sleep_time) == 0
\* in the trading branch, always in the warm-up branch; strategies.py never saves the model
ModelSaveDue(c, counter, old_position, position) ==
    /\ c.variant = "pairs"
    /\ \/ ~Trading(counter, c.bake_count)
       \/ old_position # position
       \/ (counter * c.sleep_time) % c.save_time = 0

-----------------------------------------------------------------------------
(* One tick: Pairs.__call__ *)

Opens == {"go_long", "go_short"}
Closes == {"close_long", "close_short"}

\* the points at which a tick can end without returning:
\*   "price"        get_ticker raises (BaseTrader._handle_request)
\*   "exec"         go_long / go_short / close_long / close_short raises
\*   "stop"         SIGINT arrives when the executor call has returned: signal_handler
\*                  calls sys.exit before self.position is assigned
\*   "model_open", "model_write"   self.model.save_state() raises
\*   "save_open", "save_write"     self.save_state() raises
Faults == {"none", "price", "exec", "stop", "model_open", "model_write",
           "save_open", "save_write"}

Cond(b, seq) == IF b THEN seq ELSE << >>

\* what the caller of the tick sees
OutcomeOf(fault) ==
    CASE fault = "none"  -> "returned"
      [] fault = "price" -> "PriceError"
      [] fault = "exec"  -> "ExecutionError"
      [] fault = "stop"  -> "Interrupted"
      [] OTHER           -> "PersistenceError"

NoSig == [e |-> 0, q |-> 0, t |-> 0, finite |-> FALSE, tfinite |-> FALSE]

\* (faulty variant, used against C17) the persisting statements run whatever happened
\* at the executor call
BrokeNever(fault) == FALSE

\* the tick is left at the executor call, by the exception the call raised or by
\* sys.exit in the signal handler: no statement after the call is executed
Broke(fault) == fault \in {"exec", "stop"}

\* the executor calls made: a call that raises, or the interrupt, ends the tick at the first one
Called(ops, fault) ==
    IF ops # << >> /\ fault \in {"exec", "stop"} THEN <<Head(ops)>> ELSE ops

\* (faulty variant, used against C2) self.position is assigned before the call
CommittedBeforeCall(ops, fault) == ops

\* the calls whose following assignment to self.position is executed: the assignment
\* is the statement after the call, so it is not reached when the call raises
Committed(ops, fault) ==
    IF fault \in {"exec", "stop"} THEN << >> ELSE ops

RECURSIVE CallEvents(_)
CallEvents(ops) ==
    IF ops = << >> THEN << >> ELSE <<Head(ops), "position">> \o CallEvents(Tail(ops))

\* the executor calls among the steps of an operation
ExecCalls(evs) == SelectSeq(evs, LAMBDA x : x \in Opens \cup Closes)

\* Pairs.__call__ run up to the point named by fault (to its return for "none")
\* (kc is what self.model(price_a, price_b) computes)
TickRun(kc, fault) ==
    LET c1      == NextCounter(strategy.counter)
        s1      == [strategy EXCEPT !.counter = c1]
        s       == [e |-> kc.e, q |-> kc.q, t |-> kc.t, finite |-> kc.finite,
                    tfinite |-> kc.tfinite]
        ops     == IF Trading(c1, cfg.bake_count)
                   THEN Requests(s1.position, s, K(cfg.variant)) ELSE << >>
        called  == Called(ops, fault)
        done    == Committed(ops, fault)
        \* strategies.py assigns self.volume_a before the executor is called
        s2      == IF cfg.variant = "strategies" /\ \E i \in 1..Len(called) : called[i] \in Opens
                   THEN [s1 EXCEPT !.volume_a = EntryVolume(s1.volume_b, kc.t)] ELSE s1
        s3      == [s2 EXCEPT !.position = ApplyOps(s1.position, done)]
        broke   == Broke(fault)
        due     == ModelSaveDue(cfg, c1, s1.position, s3.position)
        inModel == fault \in {"model_open", "model_write"}
        \* self.model.save_state() was reached and wrote the snapshot
        wrote   == ~broke /\ due /\ ~inModel
        mfile   == SaveFile(disk.model, ModelGetState(kc.model),
                            IF fault = "model_open" THEN "open"
                            ELSE IF fault = "model_write" THEN "write" ELSE "none")
        sfile   == SaveFile(disk.strategy, StrategyGetState(cfg, s3),
                            IF fault = "save_open" THEN "open"
                            ELSE IF fault = "save_write" THEN "write" ELSE "none")
    IN
    /\ broke => ops # << >>
    /\ inModel => due
    /\ pre' = [strategy |-> strategy, model |-> model, disk |-> disk]
    /\ lastOp' = "tick"
    /\ outcome' = OutcomeOf(fault)
    /\ pc' = IF fault = "none" THEN "ready" ELSE "failed"
    /\ ticks' = ticks + 1
    /\ steps' = steps + 1
    /\ UNCHANGED <<cfg, loaded, restarts>>
    /\ IF fault = "price"
       THEN /\ strategy' = s1
            /\ sig' = NoSig
            /\ events' = <<"counter", "ticker", "raise">>
            /\ UNCHANGED <<model, disk, execLog, obs>>
       ELSE /\ model' = kc.model
            /\ obs' = [ mem  |-> obs.mem + 1,
                        disk |-> IF wrote THEN obs.mem + 1 ELSE obs.disk ]
            /\ sig' = s
            /\ strategy' = s3
            /\ execLog' = execLog \o
                   [ i \in 1..Len(called) |->
                       [op |-> called[i], counter |-> c1, ok |-> fault # "exec"] ]
            /\ disk' = CASE broke   -> disk
                         [] inModel -> [disk EXCEPT !.model = mfile]
                         [] OTHER   -> [ model    |-> IF due THEN mfile ELSE disk.model,
                                         strategy |-> sfile ]
            /\ events' = <<"counter", "ticker", "update">>
                         \o (IF broke THEN called ELSE CallEvents(called))
                         \o Cond(~broke /\ due, <<"model_save">>)
                         \o Cond(~broke /\ ~inModel, <<"save">>)
                         \o Cond(fault # "none", <<"raise">>)

\* a tick with the tickers ta and tb returned by the price feed
Tick(ta, tb, fault) ==
    /\ pc = "ready"
    /\ steps < MaxTicks
    /\ \E kc \in {KalmanCall(model, MidPrice(ta), MidPrice(tb))} : TickRun(kc, fault)

\* the tick runs to its return statement
TickReturns == \E ta, tb \in Tickers : Tick(ta, tb, "none")
\* the price feed fails
TickPriceFeedFails == \E ta, tb \in Tickers : Tick(ta, tb, "price")
\* the trade executor raises
TickExecutorFails == \E ta, tb \in Tickers : Tick(ta, tb, "exec")
\* the process is interrupted between the executor's return and the assignment of the position
TickInterrupted == \E ta, tb \in Tickers : Tick(ta, tb, "stop")
\* saving the estimator's snapshot fails
TickModelSaveFails ==
    \E ta, tb \in Tickers, f \in {"model_open", "model_write"} : Tick(ta, tb, f)
\* saving the strategy's snapshot fails
TickSaveFails ==
    \E ta, tb \in Tickers, f \in {"save_open", "save_write"} : Tick(ta, tb, f)

-----------------------------------------------------------------------------
(* Construction: Pairs.__init__, which builds KalmanOLS first *)

\* load_state of a file: json.load raises on a truncated file (not FileNotFoundError)
Loadable(file) == file.kind # "Corrupt"

\* KalmanOLS.__init__ given the snapshot file and the draw r of np.random.rand
LoadModel(file, r) ==
    IF file.kind = "Snapshot" THEN ModelFromState(file.state) ELSE DefaultModel(r)

\* (faulty variant, used against C10) the snapshot is ignored
LoadStrategyIgnoringFile(c, file) == DefaultStrategy(c)

\* Pairs.__init__ given the snapshot file
LoadStrategy(c, file) ==
    IF file.kind = "Snapshot" THEN StrategyFromState(c, file.state) ELSE DefaultStrategy(c)

\* the process is started again with the same arguments: a new Pairs object is built
\* from whatever the snapshot files hold
Construct(r) ==
    /\ pc \in {"ready", "failed"}
    /\ restarts < MaxRestarts
    /\ restarts' = restarts + 1
    /\ lastOp' = "construct"
    /\ pre' = [strategy |-> strategy, model |-> model, disk |-> disk]
    /\ ticks' = 0
    /\ sig' = NoSig
    /\ UNCHANGED <<cfg, disk, execLog, steps>>
    /\ IF Loadable(disk.model) /\ Loadable(disk.strategy)
       THEN /\ model' = LoadModel(disk.model, r)
            /\ obs' = [obs EXCEPT !.mem = IF disk.model.kind = "Snapshot" THEN obs.disk ELSE 0]
            /\ strategy' = LoadStrategy(cfg, disk.strategy)
            /\ loaded' = LoadStrategy(cfg, disk.strategy).counter
            /\ pc' = "ready"
            /\ outcome' = "constructed"
            /\ events' = <<"load_model", "load_strategy">>
       ELSE /\ UNCHANGED <<model, strategy, loaded, obs>>
            /\ pc' = "down"
            /\ outcome' = "LoadError"
            /\ events' = IF Loadable(disk.model) THEN <<"load_model", "raise">>
                         ELSE <<"raise">>

Restart == \E r \in RInits : Construct(r)

\* the first start: no snapshot files exist
Init ==
    /\ cfg \in Configs
    /\ disk = [model |-> NotFound, strategy |-> NotFound]
    /\ \E r \in RInits : model = LoadModel(NotFound, r)
    /\ strategy = LoadStrategy(cfg, NotFound)
    /\ pc = "ready"
    /\ lastOp = "init"
    /\ outcome = "constructed"
    /\ events = <<"load_model", "load_strategy">>
    /\ sig = NoSig
    /\ pre = [strategy |-> strategy, model |-> model, disk |-> disk]
    /\ execLog = << >>
    /\ ticks = 0
    /\ loaded = 0
    /\ steps = 0
    /\ restarts = 0
    /\ obs = [mem |-> 0, disk |-> 0]

Next ==
    \/ TickReturns
    \/ TickPriceFeedFails
    \/ TickExecutorFails
    \/ TickInterrupted
    \/ TickModelSaveFails
    \/ TickSaveFails
    \/ Restart

Spec == Init /\ [][Next]_vars

-----------------------------------------------------------------------------
(* The two components exercised on their own: KalmanOLS.__call__, and
   save_state followed by the construction of a new object from the files *)

\* volume_a values a strategies.py object may hold: the default and two entry volumes
VolumesA == {Volume, FxMul(Volume, 3506), FxMul(Volume, -1250)}

\* the field values a Pairs object built with the arguments c can hold
StrategyStates(c) ==
    { [counter |-> n, position |-> p, volume_a |-> va, volume_b |-> c.volume] :
        n \in 0..MaxTicks, p \in Position,
        va \in IF c.variant = "pairs" THEN {0} ELSE VolumesA }

\* a Pairs object in any of its states, with an estimator that has not been updated yet
ComponentsInit ==
    /\ cfg \in Configs
    /\ disk = [model |-> NotFound, strategy |-> NotFound]
    /\ \E r \in RInits : model = LoadModel(NotFound, r)
    /\ strategy \in StrategyStates(cfg)
    /\ pc = "ready"
    /\ lastOp = "init"
    /\ outcome = "constructed"
    /\ events = << >>
    /\ sig = NoSig
    /\ pre = [strategy |-> strategy, model |-> model, disk |-> disk]
    /\ execLog = << >>
    /\ ticks = 0
    /\ loaded = strategy.counter
    /\ steps = 0
    /\ restarts = 0
    /\ obs = [mem |-> 0, disk |-> 0]

\* self.model(price_a, price_b): one update of the estimator
ModelCall(ta, tb) ==
    /\ steps < MaxTicks
    /\ \E kc \in {KalmanCall(model, MidPrice(ta), MidPrice(tb))} :
          /\ model' = kc.model
          /\ sig' = [e |-> kc.e, q |-> kc.q, t |-> kc.t, finite |-> kc.finite,
                     tfinite |-> kc.tfinite]
    /\ pre' = [strategy |-> strategy, model |-> model, disk |-> disk]
    /\ lastOp' = "call"
    /\ outcome' = "returned"
    /\ events' = <<"update">>
    /\ steps' = steps + 1
    /\ obs' = [obs EXCEPT !.mem = obs.mem + 1]
    /\ UNCHANGED <<cfg, strategy, disk, pc, execLog, ticks, loaded, restarts>>

\* self.model.save_state(); self.save_state(); then Pairs(...) again with the same
\* arguments: both components are rebuilt from the files just written
SaveAndLoad(r) ==
    /\ lastOp # "save_load"
    /\ \E d \in { [ model    |-> SaveFile(disk.model, ModelGetState(model), "none"),
                     strategy |-> SaveFile(disk.strategy, StrategyGetState(cfg, strategy),
                                           "none") ] } :
          /\ disk' = d
          /\ model' = LoadModel(d.model, r)
          /\ strategy' = LoadStrategy(cfg, d.strategy)
          /\ loaded' = LoadStrategy(cfg, d.strategy).counter
    /\ pre' = [strategy |-> strategy, model |-> model, disk |-> disk]
    /\ lastOp' = "save_load"
    /\ outcome' = "constructed"
    /\ events' = <<"model_save", "save", "load_model", "load_strategy">>
    /\ sig' = NoSig
    /\ obs' = [obs EXCEPT !.disk = obs.mem]
    /\ UNCHANGED <<cfg, pc, execLog, ticks, steps, restarts>>

ComponentsNext ==
    \/ \E ta, tb \in Tickers : ModelCall(ta, tb)
    \/ \E r \in RInits : SaveAndLoad(r)

ComponentsSpec == ComponentsInit /\ [][ComponentsNext]_vars

-----------------------------------------------------------------------------
(* Properties *)

\* what a construction would read from the strategy snapshot (defaults when there is none)
PersistedCounter ==
    IF disk.strategy.kind = "Snapshot" THEN disk.strategy.state.counter ELSE 0
PersistedPosition ==
    IF disk.strategy.kind = "Snapshot" THEN disk.strategy.state.invested ELSE NOT_INVESTED

\* the multiplier the specification gives for each file
SpecK == IF cfg.variant = "pairs" THEN 1 ELSE 2
\* (k * sqrt(Q)) squared for the last tick's Q
SigBound2 == SpecK * SpecK * sig.q * PriceScale
Comparable == sig.finite /\ sig.q >= 0
\* e < -k*sqrt(Q),  e > k*sqrt(Q),  e > -k*sqrt(Q),  e < k*sqrt(Q) for the last tick's signal
SigBelowLower == Comparable /\ sig.e < 0 /\ sig.e * sig.e > SigBound2
SigAboveUpper == Comparable /\ sig.e > 0 /\ sig.e * sig.e > SigBound2
SigAboveLower == Comparable /\ (sig.e >= 0 \/ sig.e * sig.e < SigBound2)
SigBelowUpper == Comparable /\ (sig.e <= 0 \/ sig.e * sig.e < SigBound2)

\* the last operation was a tick that got its prices and was past the warm-up
TickDecided ==
    lastOp = "tick" /\ outcome # "PriceError" /\ strategy.counter > cfg.bake_count

\* the last operation was a tick in which an executor call raised
ExecFailedInTick ==
    lastOp = "tick" /\ ExecCalls(events) # << >> /\ ~execLog[Len(execLog)].ok

\* C1: a tick changes the position only NOT_INVESTED -> LONG, NOT_INVESTED -> SHORT,
\* LONG -> NOT_INVESTED or SHORT -> NOT_INVESTED; never LONG -> SHORT or SHORT -> LONG.
C1_TransitionsThroughFlat ==
    (lastOp = "tick" /\ strategy.position # pre.strategy.position) =>
        <<pre.strategy.position, strategy.position>> \in
            { <<NOT_INVESTED, LONG>>, <<NOT_INVESTED, SHORT>>,
              <<LONG, NOT_INVESTED>>, <<SHORT, NOT_INVESTED>> }

\* a tick closed a long position that an earlier tick had opened
C1_Witness ==
    /\ lastOp = "tick"
    /\ pre.strategy.position = LONG
    /\ strategy.position = NOT_INVESTED
    /\ \E i \in 1..Len(execLog) : execLog[i].op = "go_long" /\ execLog[i].ok

\* C2: when an executor call raises during a tick, the in-memory position and the
\* persisted position are the position before the tick, and the tick ends with the
\* executor's error instead of returning.
C2_ExecutorFailureKeepsPosition ==
    ExecFailedInTick =>
        /\ strategy.position = pre.strategy.position
        /\ disk.strategy.kind # "Corrupt"
        /\ PersistedPosition = pre.strategy.position
        /\ outcome = "ExecutionError"
        /\ pc = "failed"

\* close_long raised while a long position was held
C2_Witness ==
    /\ ExecFailedInTick
    /\ pre.strategy.position = LONG
    /\ ExecCalls(events) = <<"close_long">>

\* C3 (as claimed): after an entry attempt from NOT_INVESTED on which the executor
\* raised, the persisted counter is the counter before the tick plus 1 and the
\* position is still NOT_INVESTED.
C3_FailedEntryPersistsCounter ==
    (ExecFailedInTick /\ pre.strategy.position = NOT_INVESTED) =>
        /\ PersistedCounter = pre.strategy.counter + 1
        /\ strategy.position = NOT_INVESTED
        /\ PersistedPosition = NOT_INVESTED

\* C4: a tick whose incremented counter is <= bake_count calls no executor operation
\* and leaves the position as it was; in a run from a fresh start, the tick numbered
\* bake_count + 1 whose signal is beyond the threshold makes the first executor call.
C4_WarmUpGate ==
    lastOp = "tick" =>
        /\ strategy.counter <= cfg.bake_count =>
              /\ ExecCalls(events) = << >>
              /\ strategy.position = pre.strategy.position
        /\ ( /\ restarts = 0
             /\ strategy.counter = cfg.bake_count + 1
             /\ outcome # "PriceError"
             /\ SigBelowLower \/ SigAboveUpper ) =>
              /\ Len(ExecCalls(events)) = 1
              /\ Len(execLog) = 1
              /\ execLog[1].counter = cfg.bake_count + 1

\* with bake_count = 2, the third tick made the first executor call
C4_Witness ==
    /\ lastOp = "tick"
    /\ restarts = 0
    /\ cfg.bake_count = 2
    /\ strategy.counter = 3
    /\ Len(execLog) = 1
    /\ execLog[1].counter = 3

\* C5: past the warm-up, a tick that starts NOT_INVESTED requests go_long exactly when
\* e < -k*sqrt(Q) and go_short exactly when e > k*sqrt(Q) (k = 1 in pairs.py, 2 in
\* strategies.py); otherwise it calls no executor operation and stays NOT_INVESTED;
\* when the tick returns the position is LONG, SHORT or NOT_INVESTED accordingly.
C5_EntryRule ==
    (TickDecided /\ pre.strategy.position = NOT_INVESTED) =>
        /\ (ExecCalls(events) = <<"go_long">>) <=> SigBelowLower
        /\ (ExecCalls(events) = <<"go_short">>) <=> SigAboveUpper
        /\ (~SigBelowLower /\ ~SigAboveUpper) =>
              ExecCalls(events) = << >> /\ strategy.position = NOT_INVESTED
        /\ outcome = "returned" =>
              /\ strategy.position = LONG <=> SigBelowLower
              /\ strategy.position = SHORT <=> SigAboveUpper

\* strategies.py abstained on a signal that lies between one and two standard deviations
C5_Witness ==
    /\ TickDecided
    /\ cfg.variant = "strategies"
    /\ pre.strategy.position = NOT_INVESTED
    /\ outcome = "returned"
    /\ strategy.position = NOT_INVESTED
    /\ sig.e * sig.e > sig.q * PriceScale

\* C6: past the warm-up, a tick that starts LONG requests close_long exactly when
\* e > -k*sqrt(Q) and otherwise stays LONG; a tick that starts SHORT requests
\* close_short exactly when e < k*sqrt(Q) and otherwise stays SHORT; a close that
\* returns leaves the position NOT_INVESTED.
C6_ExitRule ==
    /\ (TickDecided /\ pre.strategy.position = LONG) =>
          /\ ExecCalls(events) = (IF SigAboveLower THEN <<"close_long">> ELSE << >>)
          /\ ~SigAboveLower => strategy.position = LONG
          /\ outcome = "returned" =>
                strategy.position = (IF SigAboveLower THEN NOT_INVESTED ELSE LONG)
    /\ (TickDecided /\ pre.strategy.position = SHORT) =>
          /\ ExecCalls(events) = (IF SigBelowUpper THEN <<"close_short">> ELSE << >>)
          /\ ~SigBelowUpper => strategy.position = SHORT
          /\ outcome = "returned" =>
                strategy.position = (IF SigBelowUpper THEN NOT_INVESTED ELSE SHORT)

\* a short position was closed by close_short on a signal that was still positive
C6_Witness ==
    /\ TickDecided
    /\ pre.strategy.position = SHORT
    /\ outcome = "returned"
    /\ ExecCalls(events) = <<"close_short">>
    /\ strategy.position = NOT_INVESTED
    /\ sig.e > 0

\* C7: a tick requests at most one executor operation; a tick that closes a position
\* opens none, so it ends NOT_INVESTED (or, if the close failed, as it began).
C7_OneRequestPerTick ==
    lastOp = "tick" =>
        /\ Len(ExecCalls(events)) <= 1
        /\ (\E i \in 1..Len(events) : events[i] \in Closes) =>
              /\ \A i \in 1..Len(events) : events[i] \notin Opens
              /\ strategy.position \in {NOT_INVESTED, pre.strategy.position}

\* a long position was closed on a signal beyond the opposite entry bound, and the
\* tick did not open the short position
C7_Witness ==
    /\ TickDecided
    /\ pre.strategy.position = LONG
    /\ outcome = "returned"
    /\ SigAboveUpper
    /\ ExecCalls(events) = <<"close_long">>

\* C8: when a tick returns, the strategy snapshot holds the in-memory counter and position.
C8_PersistedAtEndOfTick ==
    (lastOp = "tick" /\ outcome = "returned") =>
        /\ disk.strategy.kind = "Snapshot"
        /\ disk.strategy.state.counter = strategy.counter
        /\ disk.strategy.state.invested = strategy.position

\* a returned tick that held a long position, after ticks that warmed up and opened it
C8_Witness ==
    /\ lastOp = "tick"
    /\ outcome = "returned"
    /\ cfg.bake_count = 1
    /\ pre.strategy.position = LONG
    /\ strategy.position = LONG

\* C9: the counter is 0 after a construction without snapshot; every tick, whatever the
\* position, the branch and the way it ends, adds exactly 1 to it; so the counter of an
\* object is the counter it was built with plus the ticks run on it, and n after n
\* ticks from a fresh start.
C9_CounterCountsTicks ==
    /\ lastOp = "init" => strategy.counter = 0
    /\ lastOp = "tick" => strategy.counter = pre.strategy.counter + 1
    /\ pc # "down" => strategy.counter = loaded + ticks
    /\ restarts = 0 => strategy.counter = steps

\* the third tick from a fresh start failed in the executor, and the counter is 3
C9_Witness ==
    /\ restarts = 0
    /\ lastOp = "tick"
    /\ outcome = "ExecutionError"
    /\ strategy.counter = 3

\* C10: a construction that finds no snapshot of a component does not fail on it and
\* uses the defaults: counter 0 and NOT_INVESTED for the strategy; delta, nu, w,
\* theta = 0 and C undefined for the estimator. A snapshot that exists is loaded.
C10_ConstructionFromFiles ==
    lastOp \in {"init", "construct"} =>
        /\ (disk.model.kind = "NotFound" /\ disk.strategy.kind # "Corrupt") =>
              /\ pc = "ready"
              /\ model.delta = Delta /\ model.nu = Nu
              /\ model.w = <<FxDiv(Delta, PriceScale - Delta), 0, 0,
                             FxDiv(Delta, PriceScale - Delta)>>
              /\ model.theta = <<0, 0>>
              /\ ~model.hasC
              /\ model.R \in RInits
        /\ (disk.strategy.kind = "NotFound" /\ disk.model.kind # "Corrupt") =>
              /\ pc = "ready"
              /\ strategy.counter = 0
              /\ strategy.position = NOT_INVESTED
        /\ (disk.model.kind = "Snapshot" /\ disk.strategy.kind # "Corrupt") =>
              /\ pc = "ready"
              /\ ModelGetState(model) = disk.model.state
        /\ (disk.strategy.kind = "Snapshot" /\ disk.model.kind # "Corrupt") =>
              /\ pc = "ready"
              /\ strategy.counter = disk.strategy.state.counter
              /\ strategy.position = disk.strategy.state.invested

\* a restart found no strategy snapshot but an estimator snapshot: the strategy
\* started from its defaults and the estimator from the snapshot
C10_Witness ==
    /\ lastOp = "construct"
    /\ disk.strategy.kind = "NotFound"
    /\ disk.model.kind = "Snapshot"
    /\ pc = "ready"
    /\ pre.strategy.counter > 0
    /\ strategy.counter = 0
    /\ model.hasC

\* C11: saving the state of a component and building a new component from the saved
\* snapshot gives the same state: counter, position and leg volumes of the strategy;
\* delta, nu, w, theta, R and C of the estimator, an undefined C coming back undefined.
C11_SaveLoadRoundTrip ==
    lastOp = "save_load" =>
        /\ strategy.counter = pre.strategy.counter
        /\ strategy.position = pre.strategy.position
        /\ strategy.volume_a = pre.strategy.volume_a
        /\ strategy.volume_b = pre.strategy.volume_b
        /\ model.delta = pre.model.delta
        /\ model.nu = pre.model.nu
        /\ model.w = pre.model.w
        /\ model.theta = pre.model.theta
        /\ model.R = pre.model.R
        /\ model.hasC = pre.model.hasC
        /\ pre.model.hasC => model.C = pre.model.C

\* a strategy holding a long position and an estimator never updated (C undefined)
\* were saved and rebuilt
C11_Witness ==
    /\ lastOp = "save_load"
    /\ ~pre.model.hasC
    /\ pre.strategy.position = LONG
    /\ pre.strategy.counter = 2
    /\ disk.model.kind = "Snapshot"
    /\ disk.model.state.C = Null

\* the last operation was a tick in which the estimator was updated
TickUpdated == lastOp = "tick" /\ outcome # "PriceError"

\* C12 (as claimed): a tick that fails with a price-feed, executor or persistence error
\* ends that tick only: the driver is still in its loop, ready to run the next tick
\* (and the failed tick called the price feed and the executor at most once).
C12_DriverGoesOnAfterFailure ==
    (lastOp = "tick" /\ outcome \in {"PriceError", "ExecutionError", "PersistenceError"}) =>
        /\ pc = "ready"
        /\ Len(ExecCalls(events)) <= 1

\* C13 (as claimed): an update whose forecast variance Q is <= 0 fails with a numeric
\* error and leaves theta and C as they were.
C13_NonPositiveVarianceFails ==
    (TickUpdated /\ pre.model.finite /\ sig.q <= 0) =>
        /\ outcome = "NumericError"
        /\ model.theta = pre.model.theta
        /\ model.hasC = pre.model.hasC
        /\ model.C = pre.model.C

\* C14 (as claimed): whenever C is defined, in the object and in a saved snapshot,
\* the stored R equals the stored C plus the stored w.
C14_StoredRIsCPlusW ==
    /\ (model.hasC /\ model.finite) => model.R = MatAdd(model.C, model.w)
    /\ (disk.model.kind = "Snapshot" /\ disk.model.state.C # Null
           /\ disk.model.state.finite) =>
          Deserialize2x2(disk.model.state.R) =
              MatAdd(Deserialize2x2(disk.model.state.C), Deserialize2x2(disk.model.state.w))

\* C14 (amended): after an update the stored R is the prior that update used: the C
\* of before the update plus w, or the R of before the update when C was undefined;
\* C is defined from then on, and a snapshot written by the tick holds these R and C.
C14_StoredRIsPriorOfLastUpdate ==
    (TickUpdated /\ pre.model.finite) =>
        /\ model.hasC
        /\ model.w = pre.model.w
        /\ model.R = (IF pre.model.hasC THEN MatAdd(pre.model.C, pre.model.w)
                                        ELSE pre.model.R)
        /\ (disk.model.kind = "Snapshot" /\ disk.model # pre.disk.model) =>
              /\ Deserialize2x2(disk.model.state.R) = model.R
              /\ disk.model.state.C = Serialize2x2(model.C)

\* the second update of an estimator was saved: the stored R is the first update's
\* C plus w, and it is not the second update's C plus w
C14_Witness ==
    /\ TickUpdated
    /\ outcome = "returned"
    /\ pre.model.hasC /\ pre.model.finite /\ model.finite
    /\ disk.model.kind = "Snapshot" /\ disk.model # pre.disk.model
    /\ model.R = MatAdd(pre.model.C, pre.model.w)
    /\ model.R # MatAdd(model.C, model.w)

\* whether the tick that just returned was due to persist the estimator (pairs.py)
EstimatorSaveCase ==
    \/ strategy.counter <= cfg.bake_count
    \/ strategy.position # pre.strategy.position
    \/ strategy.counter % (cfg.save_time \div cfg.sleep_time) = 0

\* C15: in pairs.py a tick that gets as far as persisting saves the estimator exactly
\* when it is a warm-up tick, or the position changed in it, or the counter is a
\* multiple of save_time / sleep_time; a tick that returns without that leaves the
\* estimator snapshot as it was and still writes the strategy snapshot.
C15_EstimatorSaveCondition ==
    (lastOp = "tick" /\ cfg.variant = "pairs"
       /\ outcome \in {"returned", "PersistenceError"}) =>
        /\ (\E i \in 1..Len(events) : events[i] = "model_save") <=> EstimatorSaveCase
        /\ outcome = "returned" =>
              /\ disk.strategy = Snapshot(StrategyGetState(cfg, strategy))
              /\ EstimatorSaveCase => disk.model = Snapshot(ModelGetState(model))
              /\ ~EstimatorSaveCase => disk.model = pre.disk.model

\* past the warm-up, a tick held its position off the cadence: the estimator had
\* changed but its snapshot was left as the earlier save wrote it
C15_Witness ==
    /\ lastOp = "tick" /\ cfg.variant = "pairs" /\ outcome = "returned"
    /\ ~EstimatorSaveCase
    /\ strategy.position = LONG
    /\ disk.model = pre.disk.model
    /\ disk.model.kind = "Snapshot"
    /\ disk.model.state # ModelGetState(model)
    /\ disk.strategy # pre.disk.strategy

\* C16 (as claimed): when a save fails in a tick whose executor call changed the
\* position, the in-memory position is the new one, the persisted strategy snapshot
\* still holds the old one, and the tick ends with the error.
C16_SaveFailureKeepsOldSnapshot ==
    (lastOp = "tick" /\ outcome = "PersistenceError"
       /\ strategy.position # pre.strategy.position) =>
        /\ pc = "failed"
        /\ disk.strategy.kind # "Corrupt"
        /\ PersistedPosition = pre.strategy.position

\* the last executor call made so far was an open that succeeded in a tick that
\* never reached its save (the snapshot's counter is behind the call's)
UnrecordedOpen ==
    /\ execLog # << >>
    /\ execLog[Len(execLog)].op \in Opens
    /\ execLog[Len(execLog)].ok
    /\ PersistedCounter < execLog[Len(execLog)].counter

\* C17: in a tick the executor call precedes the assignment of the position and both
\* precede every save, which is made only when the call returned and the position was
\* assigned; a tick stopped after a successful open and before the save leaves the
\* snapshots as they were, recording NOT_INVESTED, and the object a restart builds
\* from them is NOT_INVESTED although the open was carried out.
C17_OpenLostByStopBeforeSave ==
    /\ lastOp = "tick" =>
          /\ \A i, j \in 1..Len(events) :
                /\ (events[i] \in Opens \cup Closes /\ events[j] = "position") => i < j
                /\ (events[i] \in Opens \cup Closes \cup {"position"}
                      /\ events[j] \in {"model_save", "save"}) => i < j
          /\ (\E j \in 1..Len(events) : events[j] \in {"model_save", "save"}) =>
                Len(ExecCalls(events)) = Len(SelectSeq(events, LAMBDA x : x = "position"))
    /\ (lastOp = "tick" /\ outcome = "Interrupted" /\ ExecCalls(events) # << >>
          /\ Head(ExecCalls(events)) \in Opens) =>
          /\ execLog[Len(execLog)].ok
          /\ disk = pre.disk
          /\ disk.strategy.kind # "Corrupt"
          /\ PersistedPosition = NOT_INVESTED
    /\ (lastOp = "construct" /\ pc = "ready" /\ UnrecordedOpen) =>
          strategy.position = NOT_INVESTED

\* after a tick was stopped between a successful open and its save, the restarted
\* process opened a position again: two successful opens in a row, no close between
C17_Witness ==
    /\ lastOp = "tick"
    /\ outcome = "returned"
    /\ restarts = 1
    /\ Len(execLog) = 2
    /\ execLog[1].op \in Opens /\ execLog[1].ok
    /\ execLog[2].op \in Opens /\ execLog[2].ok
    /\ strategy.position \in {LONG, SHORT}

\* the mid-prices the feed can give: the price levels, in units
MidLevels == { p * PriceScale : p \in PriceLevels }

\* C18: a tick reads the prices, then updates the estimator, then makes its executor
\* call if any, then persists; in a tick that got its prices, warm-up or not, the
\* estimator is the one before the tick updated once with the two mid-prices; in a
\* tick whose price read failed the estimator is not updated.
C18_StepOrderOneUpdate ==
    lastOp = "tick" =>
        /\ Len(events) >= 3 /\ events[1] = "counter" /\ events[2] = "ticker"
        /\ Len(SelectSeq(events, LAMBDA x : x = "ticker")) = 1
        /\ \A i, j \in 1..Len(events) :
              /\ (events[i] = "update" /\ events[j] \in Opens \cup Closes) => i < j
              /\ (events[i] \in Opens \cup Closes \cup {"update"}
                    /\ events[j] \in {"model_save", "save"}) => i < j
              /\ (events[i] = "model_save" /\ events[j] = "save") => i < j
        /\ outcome # "PriceError" =>
              /\ events[3] = "update"
              /\ Len(SelectSeq(events, LAMBDA x : x = "update")) = 1
              /\ \E pa, pb \in MidLevels :
                    \E kc \in {KalmanCall(pre.model, pa, pb)} :
                       /\ model = kc.model
                       /\ sig.e = kc.e /\ sig.q = kc.q /\ sig.t = kc.t
        /\ outcome = "PriceError" =>
              /\ \A i \in 1..Len(events) : events[i] # "update"
              /\ model = pre.model
              /\ ExecCalls(events) = << >>
              /\ disk = pre.disk

\* a warm-up tick updated an estimator that had been updated before, and saved
C18_Witness ==
    /\ lastOp = "tick"
    /\ outcome = "returned"
    /\ strategy.counter = 2
    /\ cfg.bake_count = 2
    /\ pre.model.hasC
    /\ model.theta # pre.model.theta
    /\ events[Len(events)] = "save"

\* C19 (as claimed): no tick modifies volume_b; a tick that leaves the position as it
\* was leaves volume_a as it was; a tick that opens a position sets volume_a to
\* round(volume_b * t, 8) for the t its estimator update returned.
C19_VolumesChangeOnlyOnOpen ==
    lastOp = "tick" =>
        /\ strategy.volume_b = pre.strategy.volume_b
        /\ strategy.position = pre.strategy.position =>
              strategy.volume_a = pre.strategy.volume_a
        /\ (cfg.variant = "strategies" /\ pre.strategy.position = NOT_INVESTED
              /\ strategy.position \in {LONG, SHORT}) =>
              strategy.volume_a = RDiv(strategy.volume_b * sig.t, PriceScale)

\* C20 (as claimed): after a tick past the warm-up that returned, a LONG position
\* has e <= -k*sqrt(Q) and a SHORT position has e >= k*sqrt(Q) for that tick's e, Q.
C20_PositionAgreesWithSignal ==
    (lastOp = "tick" /\ outcome = "returned" /\ strategy.counter > cfg.bake_count) =>
        /\ strategy.position = LONG =>
              Comparable /\ sig.e <= 0 /\ sig.e * sig.e >= SigBound2
        /\ strategy.position = SHORT =>
              Comparable /\ sig.e >= 0 /\ sig.e * sig.e >= SigBound2

\* C21 (as claimed): whenever the trade executor is called, the estimator in use has
\* been updated more than bake_count times since its default initialisation, across
\* ticks and restarts from the snapshots.
C21_ExecutorAfterWarmUp ==
    (lastOp = "tick" /\ ExecCalls(events) # << >>) => obs.mem > cfg.bake_count

\* C22 (as claimed): every executor call carries a counter strictly greater than
\* the counter of every earlier executor call, across failures and restarts.
C22_ExecutorCountersIncrease ==
    \A i, j \in 1..Len(execLog) : i < j => execLog[i].counter < execLog[j].counter

=============================================================================
